---- MODULE Spec2Model ----
(***************************************************************************)
(* A model of icalm (src/src/main.rs): the CalBuilder that merges the      *)
(* components of several parsed calendars, and CalBuilder::calendar, which *)
(* assembles the output calendar through an EventProcessor.                *)
(*                                                                         *)
(* An icalendar Event is modelled by its property map (properties() is a   *)
(* map from property name to Property, so an event holds one property per  *)
(* name); a Property by its key, value and parameter map.                  *)
(***************************************************************************)
EXTENDS Integers, Sequences, FiniteSets, TLC

\* Option::None
None == "None"

----------------------------------------------------------------------------
\* Bounds of the model.

\* Size of the input of one run: the sources read, the metadata fields and the
\* components in them, and the metadata options given.
MaxInput == 4
\* Files named by the Cat command.
MaxFiles == 1
\* Largest argument of the Limit command.
MaxLimit == 1

----------------------------------------------------------------------------
\* The document model (icalendar::Property, Event, CalendarComponent).

EmptyMap == << >>

Property(k, v, ps) == [key |-> k, val |-> v, params |-> ps]

\* Property::new(key, value): no parameters.
NewProperty(k, v) == Property(k, v, EmptyMap)

\* icalendar::Parameter::new("TZID", tz) put in a parameter map.
TzParam(tz) == "TZID" :> tz

\* Event::new(): an event without properties.
NewEvent == [type |-> "Event", props |-> EmptyMap]

\* append_property / add_property: the map keeps one property per key.
AppendProperty(ev, p) ==
  [ev EXCEPT !.props =
     [k \in (DOMAIN ev.props) \cup {p.key} |->
        IF k = p.key THEN p ELSE ev.props[k]]]

\* event.get_uid(): the value of the UID property, if any.
GetUid(ev) == IF "UID" \in DOMAIN ev.props THEN ev.props["UID"].val ELSE None

\* other.property_value("TZID")
GetTzid(other) ==
  IF "TZID" \in DOMAIN other.props THEN other.props["TZID"].val ELSE None

IsEvent(c) == c.type = "Event"

\* The events the inputs are drawn from.
MkEvent(uid, summary, tz) ==
  LET e0 == NewEvent
      e1 == IF uid = None THEN e0 ELSE AppendProperty(e0, NewProperty("UID", uid))
      e2 == AppendProperty(e1, NewProperty("SUMMARY", summary))
  IN  IF tz = None THEN e2
      ELSE AppendProperty(e2, Property("DTSTART", "t", TzParam(tz)))

Events ==
  { MkEvent("u1", "a", None), MkEvent("u1", "b", "z1"),
    MkEvent("u2", "a", "z2"), MkEvent(None, "a", None) }

MkOther(kind, tzid, body) ==
  [type |-> "Other", kind |-> kind,
   props |-> IF tzid = None
             THEN "X" :> NewProperty("X", body)
             ELSE ("TZID" :> NewProperty("TZID", tzid))
                  @@ ("X" :> NewProperty("X", body))]

Others ==
  { MkOther("VTIMEZONE", "z1", "a"), MkOther("VTIMEZONE", "z1", "b"),
    MkOther("VTIMEZONE", "z2", "a"), MkOther("VTIMEZONE", None, "a"),
    MkOther("VJOURNAL", "z1", "a") }

\* The remaining variants of CalendarComponent (Todo, Venue).
Todos == { [type |-> "Todo", props |-> "SUMMARY" :> NewProperty("SUMMARY", "a")] }

\* Calendar-level metadata of an input calendar: get_name(), get_description(),
\* get_timezone().
Meta(n, d, t) == [name |-> n, description |-> d, timezone |-> t]

DocMetas ==
  [name : {None, "n1", "n2"}, description : {None, "d1", "d2"},
   timezone : {None, "z1", "z2"}]

\* The --name and --description options.
Clis == [name : {None, "n0"}, description : {None, "d0"}]

\* The number of values among the options xs.
RECURSIVE Given(_)
Given(xs) ==
  IF xs = << >> THEN 0 ELSE (IF Head(xs) = None THEN 0 ELSE 1) + Given(Tail(xs))

MetaSize(m) == Given(<<m.name, m.description, m.timezone>>)

----------------------------------------------------------------------------
\* The event processors (trait EventProcessor and its implementations).

DefaultEventProcessor == [kind |-> "Identity"]

\* RemovePropEventProcessor::new(properties, keep)
RemovePropEventProcessor(names, keep) ==
  [kind |-> "RemoveProp", properties_set |-> names, keep |-> keep]

ReplacePropEventProcessor(property, value) ==
  [kind |-> "ReplaceProp", property |-> property, value |-> value]

TzSubstEventProcessor(from_tz, to_tz) ==
  [kind |-> "TzSubst", from_tz |-> from_tz, to_tz |-> to_tz]

LimitEventProcessor(remaining) == [kind |-> "Limit", remaining |-> remaining]

\* The event built by appending, to a new event, the properties of ev whose
\* key is in keys.
CopyProperties(ev, keys) ==
  [NewEvent EXCEPT !.props = [k \in keys |-> ev.props[k]]]

\* Mutant of RemovePropTransform: the keep flag is not looked at.
RemovePropIgnoresKeep(p, ev) ==
  CopyProperties(ev, {k \in DOMAIN ev.props : k \notin p.properties_set})

\* RemovePropEventProcessor::transform
RemovePropTransform(p, ev) ==
  CopyProperties(ev, {k \in DOMAIN ev.props : p.keep = (k \in p.properties_set)})

\* Mutant of ReplacePropTransform: a property already there gets the new value
\* and keeps its parameters.
ReplacePropKeepsParams(p, ev) ==
  AppendProperty(CopyProperties(ev, {k \in DOMAIN ev.props : k # p.property}),
                 IF p.property \in DOMAIN ev.props
                 THEN Property(p.property, p.value, ev.props[p.property].params)
                 ELSE NewProperty(p.property, p.value))

\* ReplacePropEventProcessor::transform
ReplacePropTransform(p, ev) ==
  AppendProperty(CopyProperties(ev, {k \in DOMAIN ev.props : k # p.property}),
                 NewProperty(p.property, p.value))

\* Mutant of TzSubstProperty: the new property gets the TZID parameter alone.
TzSubstDropsParams(p, v) ==
  LET to_replace == IF "TZID" \in DOMAIN v.params
                    THEN v.params["TZID"] = p.from_tz
                    ELSE FALSE
  IN  IF to_replace THEN Property(v.key, v.val, TzParam(p.to_tz)) ELSE v

\* The property TzSubstEventProcessor::transform appends for property v.
TzSubstProperty(p, v) ==
  LET to_replace == IF "TZID" \in DOMAIN v.params
                    THEN v.params["TZID"] = p.from_tz
                    ELSE FALSE
  IN  IF to_replace
      THEN Property(v.key, v.val,
                    [k \in DOMAIN v.params |->
                       IF k = "TZID" THEN p.to_tz ELSE v.params[k]])
      ELSE v

\* TzSubstEventProcessor::transform
TzSubstTransform(p, ev) ==
  [NewEvent EXCEPT !.props = [k \in DOMAIN ev.props |-> TzSubstProperty(p, ev.props[k])]]

\* Mutant of Filter: the counter is compared with >= 0.
FilterOffByOne(p, ev) ==
  IF p.kind = "Limit"
  THEN IF p.remaining >= 0
       THEN [keep |-> TRUE, proc |-> [p EXCEPT !.remaining = p.remaining - 1]]
       ELSE [keep |-> FALSE, proc |-> p]
  ELSE [keep |-> TRUE, proc |-> p]

\* EventProcessor::filter: the answer, and the processor after the call
\* (LimitEventProcessor counts down; the default keeps every event).
Filter(p, ev) ==
  IF p.kind = "Limit"
  THEN IF p.remaining > 0
       THEN [keep |-> TRUE, proc |-> [p EXCEPT !.remaining = p.remaining - 1]]
       ELSE [keep |-> FALSE, proc |-> p]
  ELSE [keep |-> TRUE, proc |-> p]

\* Option<Event>: the empty sequence is None, <<ev>> is Some(ev).
NoEvent == << >>
SomeEvent(ev) == <<ev>>

\* EventProcessor::transform: None (the default), or the event that replaces ev.
Transform(p, ev) ==
  CASE p.kind = "RemoveProp"  -> SomeEvent(RemovePropTransform(p, ev))
    [] p.kind = "ReplaceProp" -> SomeEvent(ReplacePropTransform(p, ev))
    [] p.kind = "TzSubst"     -> SomeEvent(TzSubstTransform(p, ev))
    [] OTHER                  -> NoEvent

\* The processors main() can build from the command line.
Processors ==
  { RemovePropEventProcessor({"UID"}, FALSE),
    RemovePropEventProcessor({"UID", "SUMMARY"}, TRUE),
    ReplacePropEventProcessor("SUMMARY", "c"),
    ReplacePropEventProcessor("UID", "u1"),
    TzSubstEventProcessor("z1", "z2") }
  \cup { LimitEventProcessor(n) : n \in 0..MaxLimit }

----------------------------------------------------------------------------
\* The state of one run of main().

VARIABLES
  cli,          \* the --name and --description options
  strategy,     \* the EventReplacementStrategy given to CalBuilder::new
  printed,      \* the lines the Prop command wrote to standard output
  t_event,      \* an event handed to an event processor on its own
  t_processor,  \* that event processor
  t_result,     \* << >> before the call, <<r>> once transform returned r
  stage,        \* where main() is: "input", "stdin", "command", "cat", "done",
                \* or "aborted" after a panic
  pc,           \* "main", or "process" inside the loop of CalBuilder::process
  components,   \* CalBuilder.components
  id_map,       \* CalBuilder.id_map: UID -> index into components (from 1)
  name,         \* CalBuilder.name
  description,  \* CalBuilder.description
  timezone,     \* CalBuilder.timezone
  tzid_set,     \* the local tzid_set of the running CalBuilder::process call
  warnings,     \* lines written by eprintln
  output,       \* the calendar handed to print_calendar, once assembled
  processor,    \* the event processor main() hands to calendar()
  calls,        \* the calls calendar() made on the event processor and on push
  docs,         \* history: the metadata of the calendars parsed so far
  ingested      \* history: the components read so far, with their document and
                \* the length of CalBuilder.components when each was read

vars == <<cli, strategy, printed, t_event, t_processor, t_result, stage, pc, components, id_map, name, description, timezone,
          tzid_set, warnings, output, processor, calls, docs, ingested>>

probe == <<t_event, t_processor, t_result>>

builder == <<components, id_map, name, description, timezone>>

NoOutput == << >>

\* main(): CalBuilder::new(&mut default_replacement_strategy, &cli), with
\* DefaultEventReplacementStrategy.
Init ==
  /\ cli \in Clis
  /\ strategy = "default"
  /\ printed = << >>
  /\ t_event = NewEvent
  /\ t_processor = DefaultEventProcessor
  /\ t_result = << >>
  /\ stage = "input"
  /\ pc = "main"
  /\ components = << >>
  /\ id_map = EmptyMap
  /\ name = cli.name
  /\ description = cli.description
  /\ timezone = None
  /\ tzid_set = {}
  /\ warnings = 0
  /\ output = NoOutput
  /\ processor = DefaultEventProcessor
  /\ calls = << >>
  /\ docs = << >>
  /\ ingested = << >>

\* Mutant of OptionOr: the later value wins.
OptionOrLast(a, b) == IF b # None THEN b ELSE a

\* Option::or
OptionOr(a, b) == IF a # None THEN a ELSE b

\* Mutant of must_replace: the event seen first is kept.
must_replace_never(new_event, old_event) == FALSE

\* EventReplacementStrategy::must_replace: the trait's default method, which
\* DefaultEventReplacementStrategy keeps, answers true; "never" is a strategy
\* that overrides it to answer false.
must_replace(new_event, old_event) == strategy = "default"

\* The sources main() reads, in its order: --input, standard input, and the
\* files of the Cat command.
StageAfter(src) ==
  CASE src = "input" -> "stdin"
    [] src = "stdin" -> "command"
    [] src = "cat"   -> "cat"

\* Mutant of CanRead: standard input is read first, the --input file after it.
CanReadStdinFirst(src) ==
  CASE src = "input" -> /\ stage \in {"input", "command"}
                        /\ \A i \in DOMAIN docs : docs[i].src = "stdin"
    [] src = "stdin" -> /\ stage \in {"input", "stdin"}
                        /\ docs = << >>
    [] src = "cat"   -> /\ stage \in {"input", "stdin", "command", "cat"}
                        /\ Cardinality({i \in DOMAIN docs : docs[i].src = "cat"}) < MaxFiles

CanRead(src) ==
  CASE src = "input" -> stage = "input"
    [] src = "stdin" -> stage \in {"input", "stdin"}
    [] src = "cat"   -> /\ stage \in {"input", "stdin", "command", "cat"}
                        /\ Cardinality({i \in DOMAIN docs : docs[i].src = "cat"}) < MaxFiles

Sources == {"input", "stdin", "cat"}

RECURSIVE DocsSize(_)
DocsSize(ds) ==
  IF ds = << >> THEN 0 ELSE 1 + MetaSize(Head(ds).meta) + DocsSize(Tail(ds))

InputSize ==
  Given(<<cli.name, cli.description>>) + DocsSize(docs) + Len(ingested)

\* process_file / process_stdin on an input of length 0: process does nothing.
ProcessEmpty(src) ==
  /\ pc = "main"
  /\ CanRead(src)
  /\ InputSize < MaxInput
  /\ stage' = StageAfter(src)
  /\ docs' = Append(docs, [src |-> src, empty |-> TRUE, failed |-> FALSE,
                          meta |-> Meta(None, None, None)])
  /\ UNCHANGED <<cli, strategy, printed, probe, pc, builder, tzid_set, warnings, output, processor, calls, ingested>>

\* Mutant of ProcessFail: the failure is passed over and main() goes on with
\* the next source.
ProcessFailIgnored(src) ==
  /\ pc = "main"
  /\ CanRead(src)
  /\ InputSize < MaxInput
  /\ stage' = StageAfter(src)
  /\ docs' = Append(docs, [src |-> src, empty |-> FALSE, failed |-> TRUE,
                          meta |-> Meta(None, None, None)])
  /\ UNCHANGED <<cli, strategy, printed, probe, pc, builder, tzid_set, warnings,
                 output, processor, calls, ingested>>

\* process_file / process_stdin on a source that cannot be read or parsed:
\* read_to_string(..).unwrap() or input.parse().unwrap() panics, before
\* or_calendar and the loop.
ProcessFail(src) ==
  /\ pc = "main"
  /\ CanRead(src)
  /\ InputSize < MaxInput
  /\ stage' = "aborted"
  /\ docs' = Append(docs, [src |-> src, empty |-> FALSE, failed |-> TRUE,
                          meta |-> Meta(None, None, None)])
  /\ UNCHANGED <<cli, strategy, printed, probe, pc, builder, tzid_set, warnings,
                 output, processor, calls, ingested>>

\* process_file / process_stdin up to the loop of process: a new tzid_set,
\* the input parsed, or_calendar.
BeginProcess(src, meta) ==
  /\ pc = "main"
  /\ CanRead(src)
  /\ InputSize + MetaSize(meta) < MaxInput
  /\ stage' = StageAfter(src)
  /\ pc' = "process"
  /\ tzid_set' = {}
  /\ name' = OptionOr(name, meta.name)
  /\ description' = OptionOr(description, meta.description)
  /\ timezone' = OptionOr(timezone, meta.timezone)
  /\ docs' = Append(docs, [src |-> src, empty |-> FALSE, failed |-> FALSE, meta |-> meta])
  /\ UNCHANGED <<cli, strategy, printed, probe, components, id_map, warnings, output, processor, calls, ingested>>

\* Mutant of UidKey: an event without UID gets the empty string as its UID.
UidKeyOrEmpty(event) == IF GetUid(event) = None THEN "" ELSE GetUid(event)

\* if let Some(uid) = event.get_uid() { let uid = uid.to_string(); ...
UidKey(event) == GetUid(event)

\* self.id_map.get(&uid): is the UID known?
IdMapHas(m, uid) == uid \in DOMAIN m

\* Mutant of IdMapInsert: the UID is not recorded.
IdMapInsertLost(m, uid, comps) == m

\* Mutant of IdMapInsert: the length is taken after the push.
IdMapInsertAfterPush(m, uid, comps) ==
  [k \in (DOMAIN m) \cup {uid} |-> IF k = uid THEN Len(comps) + 2 ELSE m[k]]

\* self.id_map.insert(uid, self.components.len()), indices counted from 1.
IdMapInsert(m, uid, comps) ==
  [k \in (DOMAIN m) \cup {uid} |-> IF k = uid THEN Len(comps) + 1 ELSE m[k]]

\* Mutant of ReplaceAt: the old event is removed and the new one appended.
ReplaceMoveToEnd(comps, index, c) ==
  Append(SubSeq(comps, 1, index - 1) \o SubSeq(comps, index + 1, Len(comps)), c)

\* *refcell = component.clone() with refcell = &mut self.components[index]
ReplaceAt(comps, index, c) == [comps EXCEPT ![index] = c]

\* Mutant of StoreIfReplaced: the answer of the policy is ignored.
StoreAlways(comps, index, c, to_replace) == ReplaceAt(comps, index, c)

\* if to_replace { *refcell = component.clone(); }
StoreIfReplaced(comps, index, c, to_replace) ==
  IF to_replace THEN ReplaceAt(comps, index, c) ELSE comps

\* Mutant of Push: the component is put in front of the sequence.
PushFront(comps, c) == <<c>> \o comps

\* self.components.push(component.clone())
Push(comps, c) == Append(comps, c)

\* Mutant of Preserve: the TZID is looked up whatever the kind of the block.
PreserveAnyKind(other, seen) ==
  IF GetTzid(other) # None THEN GetTzid(other) \notin seen ELSE TRUE

\* The Other arm's preserve: a VTIMEZONE block whose TZID this call of process
\* has seen is dropped.
Preserve(other, seen) ==
  IF other.kind = "VTIMEZONE"
  THEN IF GetTzid(other) # None THEN GetTzid(other) \notin seen ELSE TRUE
  ELSE TRUE

Ingest(c) ==
  ingested' = Append(ingested, [comp |-> c, doc |-> Len(docs), at |-> Len(components)])

\* One iteration of the loop of process, CalendarComponent::Event arm.
ProcessEvent(event) ==
  /\ pc = "process"
  /\ InputSize < MaxInput
  /\ Ingest(event)
  /\ LET uid == UidKey(event) IN
     IF uid # None
     THEN IF IdMapHas(id_map, uid)
          THEN LET index == id_map[uid]
                   to_replace == IF IsEvent(components[index])
                                 THEN must_replace(event, components[index])
                                 ELSE FALSE
               IN  /\ components' = StoreIfReplaced(components, index, event, to_replace)
                   /\ UNCHANGED <<id_map, warnings>>
          ELSE /\ id_map' = IdMapInsert(id_map, uid, components)
               /\ components' = Push(components, event)
               /\ UNCHANGED warnings
     ELSE /\ warnings' = warnings + 1
          /\ UNCHANGED <<components, id_map>>
  /\ UNCHANGED <<cli, strategy, printed, probe, stage, pc, name, description, timezone, tzid_set, output,
                 processor, calls, docs>>

\* One iteration of the loop of process, CalendarComponent::Other arm.
ProcessOther(other) ==
  /\ pc = "process"
  /\ InputSize < MaxInput
  /\ Ingest(other)
  /\ LET tzid == GetTzid(other)
         preserve == Preserve(other, tzid_set)
     IN  /\ tzid_set' = IF other.kind = "VTIMEZONE" /\ tzid # None
                        THEN tzid_set \cup {tzid}
                        ELSE tzid_set
         /\ components' = IF preserve THEN Push(components, other) ELSE components
  /\ UNCHANGED <<cli, strategy, printed, probe, stage, pc, id_map, name, description, timezone, warnings,
                 output, processor, calls, docs>>

\* One iteration of the loop of process, the arm of every other variant.
ProcessDefault(component) ==
  /\ pc = "process"
  /\ InputSize < MaxInput
  /\ Ingest(component)
  /\ components' = Push(components, component)
  /\ UNCHANGED <<cli, strategy, printed, probe, stage, pc, id_map, name, description, timezone, tzid_set,
                 warnings, output, processor, calls, docs>>

\* The loop of process ends and process returns: tzid_set goes out of scope.
EndProcess ==
  /\ pc = "process"
  /\ pc' = "main"
  /\ tzid_set' = {}
  /\ UNCHANGED <<cli, strategy, printed, probe, stage, builder, warnings, output, processor, calls, docs, ingested>>

----------------------------------------------------------------------------
\* Assembly: CalBuilder::calendar.

\* CalBuilder::empty_calendar
empty_calendar ==
  [name |-> name, description |-> description, timezone |-> timezone,
   components |-> << >>]

FilterCall(i, keep) == [op |-> "filter", idx |-> i, keep |-> keep]
TransformCall(i, result) == [op |-> "transform", idx |-> i, result |-> result]
PushCall(i, c) == [op |-> "push", idx |-> i, comp |-> c]

\* Mutant of CalendarStep: the original event is pushed after its replacement.
CalendarStepPushBoth(component, i, p, out, log) ==
  IF IsEvent(component)
  THEN LET f == Filter(p, component)
           log1 == Append(log, FilterCall(i, f.keep))
       IN  IF f.keep
           THEN LET t == Transform(f.proc, component)
                    log2 == Append(log1, TransformCall(i, t))
                IN  IF t = NoEvent
                    THEN [proc |-> f.proc, out |-> Append(out, component),
                          log |-> Append(log2, PushCall(i, component))]
                    ELSE [proc |-> f.proc,
                          out |-> Append(Append(out, t[1]), component),
                          log |-> Append(Append(log2, PushCall(i, t[1])),
                                         PushCall(i, component))]
           ELSE [proc |-> f.proc, out |-> out, log |-> log1]
  ELSE [proc |-> p, out |-> Append(out, component),
        log |-> Append(log, PushCall(i, component))]

\* Mutant of CalendarStep: a component that is not an Event is not retained.
CalendarStepDropsOthers(component, i, p, out, log) ==
  IF IsEvent(component)
  THEN LET f == Filter(p, component)
           log1 == Append(log, FilterCall(i, f.keep))
       IN  IF f.keep
           THEN LET t == Transform(f.proc, component)
                    log2 == Append(log1, TransformCall(i, t))
                    pushed == IF t = NoEvent THEN component ELSE t[1]
                IN  [proc |-> f.proc, out |-> Append(out, pushed),
                     log |-> Append(log2, PushCall(i, pushed))]
           ELSE [proc |-> f.proc, out |-> out, log |-> log1]
  ELSE [proc |-> p, out |-> out, log |-> log]

\* One iteration of the loop of calendar(): component i of the builder, with
\* event processor p, the components pushed so far (out) and the calls made so
\* far (log).
CalendarStep(component, i, p, out, log) ==
  IF IsEvent(component)
  THEN LET f == Filter(p, component)
           log1 == Append(log, FilterCall(i, f.keep))
       IN  IF f.keep
           THEN LET t == Transform(f.proc, component)
                    log2 == Append(log1, TransformCall(i, t))
                    pushed == IF t = NoEvent THEN component ELSE t[1]
                IN  [proc |-> f.proc, out |-> Append(out, pushed),
                     log |-> Append(log2, PushCall(i, pushed))]
           ELSE [proc |-> f.proc, out |-> out, log |-> log1]
  ELSE [proc |-> p, out |-> Append(out, component),
        log |-> Append(log, PushCall(i, component))]

\* The loop of calendar() from component i on.
RECURSIVE CalendarLoop(_, _, _, _, _)
CalendarLoop(comps, i, p, out, log) ==
  IF i > Len(comps)
  THEN [components |-> out, calls |-> log]
  ELSE LET r == CalendarStep(comps[i], i, p, out, log)
       IN  CalendarLoop(comps, i + 1, r.proc, r.out, r.log)

\* cli.print_calendar(&output.calendar(event_processor)) with processor p: the
\* Cat command uses the default processor, every other command runs right
\* after --input and standard input were read.
Calendar(p) ==
  /\ pc = "main"
  /\ stage \notin {"done", "aborted"}
  /\ p # DefaultEventProcessor => stage # "cat"
  /\ LET r == CalendarLoop(components, 1, p, << >>, << >>) IN
       /\ output' = <<[empty_calendar EXCEPT !.components = r.components]>>
       /\ calls' = r.calls
  /\ processor' = p
  /\ stage' = "done"
  /\ UNCHANGED <<cli, strategy, printed, probe, pc, builder, tzid_set, warnings, docs, ingested>>

\* The keys of a property map in the order its iterator yields them (the map
\* is ordered by key).
NameOrder == <<"DTEND", "DTSTART", "LOCATION", "SUMMARY", "TZID", "UID", "X">>

Keys(props) == SelectSeq(NameOrder, LAMBDA k : k \in DOMAIN props)

\* Mutant of PropPrint: the name is printed whether or not it was seen.
PropPrintAll(lines, seen, prop) == Append(lines, prop)

\* if !properties_set.contains(prop) { println!("{}", prop); ... }
PropPrint(lines, seen, prop) == IF prop \notin seen THEN Append(lines, prop) ELSE lines

\* The inner loop of Commands::Prop over the keys of one event.
RECURSIVE PropKeys(_, _)
PropKeys(keys, lines) ==
  IF keys = << >> THEN lines
  ELSE PropKeys(Tail(keys),
                PropPrint(lines, {lines[k] : k \in DOMAIN lines}, Head(keys)))

\* The loop of Commands::Prop over the components from component i on.
RECURSIVE PropLoop(_, _, _)
PropLoop(comps, i, lines) ==
  IF i > Len(comps) THEN lines
  ELSE IF IsEvent(comps[i])
       THEN PropLoop(comps, i + 1, PropKeys(Keys(comps[i].props), lines))
       ELSE PropLoop(comps, i + 1, lines)

\* Commands::Prop, after --input and standard input were read.
Prop ==
  /\ pc = "main"
  /\ stage \in {"input", "stdin", "command"}
  /\ printed' = PropLoop(components, 1, << >>)
  /\ stage' = "done"
  /\ UNCHANGED <<cli, strategy, probe, pc, builder, tzid_set, warnings, output,
                 processor, calls, docs, ingested>>

Next ==
  \/ \E src \in Sources : ProcessEmpty(src)
  \/ \E src \in Sources : ProcessFail(src)
  \/ \E src \in Sources, meta \in DocMetas : BeginProcess(src, meta)
  \/ \E event \in Events : ProcessEvent(event)
  \/ \E other \in Others : ProcessOther(other)
  \/ \E component \in Todos : ProcessDefault(component)
  \/ EndProcess
  \/ \E p \in Processors \cup {DefaultEventProcessor} : Calendar(p)
  \/ Prop

Spec == Init /\ [][Next]_vars

\* CalBuilder::new given an EventReplacementStrategy whose must_replace
\* answers false.
InitPolicy ==
  /\ cli \in Clis
  /\ strategy = "never"
  /\ printed = << >>
  /\ t_event = NewEvent
  /\ t_processor = DefaultEventProcessor
  /\ t_result = << >>
  /\ stage = "input"
  /\ pc = "main"
  /\ components = << >>
  /\ id_map = EmptyMap
  /\ name = cli.name
  /\ description = cli.description
  /\ timezone = None
  /\ tzid_set = {}
  /\ warnings = 0
  /\ output = NoOutput
  /\ processor = DefaultEventProcessor
  /\ calls = << >>
  /\ docs = << >>
  /\ ingested = << >>

SpecPolicy == InitPolicy /\ [][Next]_vars

----------------------------------------------------------------------------
\* Helpers of the properties.

\* The calendar print_calendar received.
Out == output[1]

Assembled == output # NoOutput

\* The positions of seq that hold an Event with a UID.
UidEvents(seq) == {i \in DOMAIN seq : IsEvent(seq[i]) /\ GetUid(seq[i]) # None}

\* No two Events of seq share a UID.
UidUnique(seq) ==
  \A i, j \in UidEvents(seq) : GetUid(seq[i]) = GetUid(seq[j]) => i = j

\* The positions of the history that hold an Event with UID uid.
Arrivals(uid) ==
  {i \in DOMAIN ingested : IsEvent(ingested[i].comp) /\ GetUid(ingested[i].comp) = uid}

Min(S) == CHOOSE x \in S : \A y \in S : x <= y
Max(S) == CHOOSE x \in S : \A y \in S : x >= y

\* The step read one more component.
ReadsComponent == Len(ingested') = Len(ingested) + 1

Arrived == ingested'[Len(ingested')].comp

----------------------------------------------------------------------------
\* C1 (as stated): whichever event processor is selected, the assembled
\* calendar holds at most one Event per distinct UID.
C1_UidUniqueAnyProcessor == Assembled => UidUnique(Out.components)

\* The processor rewrites the UID property of every event to one constant.
SetsUid(p) == p.kind = "ReplaceProp" /\ p.property = "UID"

\* C1 (amended): unless the processor is Replace-Property applied to the UID
\* property itself, the assembled calendar holds at most one Event per
\* distinct UID.
C1_UidUniqueOutput ==
  (Assembled /\ ~SetsUid(processor)) => UidUnique(Out.components)

\* C1 witness: a calendar assembled by a transforming processor that keeps two
\* events, after an event with a repeated UID was read.
C1_Witness ==
  /\ Assembled
  /\ processor.kind = "ReplaceProp"
  /\ ~SetsUid(processor)
  /\ Cardinality(UidEvents(Out.components)) = 2
  /\ \E uid \in {"u1", "u2"} : Cardinality(Arrivals(uid)) = 2

----------------------------------------------------------------------------
\* C2: in every state the builder holds at most one Event per UID, and every
\* UID of id_map maps to the position of an Event with that UID.
C2_BuilderIndex ==
  /\ UidUnique(components)
  /\ \A uid \in DOMAIN id_map :
       /\ id_map[uid] \in DOMAIN components
       /\ IsEvent(components[id_map[uid]])
       /\ GetUid(components[id_map[uid]]) = uid

\* C2 witness: two UIDs indexed, after a third event repeated one of them.
C2_Witness ==
  /\ Cardinality(DOMAIN id_map) = 2
  /\ Cardinality(UidEvents([i \in DOMAIN ingested |-> ingested[i].comp])) = 3

----------------------------------------------------------------------------
\* C3: reading an Event whose UID is indexed, when the policy says replace,
\* overwrites the component at the indexed position and changes neither the
\* length of the sequence, nor id_map, nor any other component.
C3_ReplaceInPlace ==
  [][(/\ ReadsComponent
      /\ IsEvent(Arrived)
      /\ GetUid(Arrived) \in DOMAIN id_map
      /\ must_replace(Arrived, components[id_map[GetUid(Arrived)]]))
     => (/\ Len(components') = Len(components)
         /\ id_map' = id_map
         /\ components'[id_map[GetUid(Arrived)]] = Arrived
         /\ \A i \in DOMAIN components :
              i # id_map[GetUid(Arrived)] => components'[i] = components[i])]_vars

\* C3 witness: an event took the place of a different event with its UID, at
\* a position that is not the last of the sequence.
C3_Witness ==
  \E i, j \in DOMAIN ingested :
    /\ i < j
    /\ IsEvent(ingested[i].comp) /\ IsEvent(ingested[j].comp)
    /\ GetUid(ingested[i].comp) # None
    /\ GetUid(ingested[i].comp) = GetUid(ingested[j].comp)
    /\ ingested[i].comp # ingested[j].comp
    /\ ingested[i].at + 1 < Len(components)
    /\ components[ingested[i].at + 1] = ingested[j].comp

----------------------------------------------------------------------------
\* C4: under the default policy the Event retained for a UID is the last one
\* read with that UID, at the position where the first one was appended.
C4_NewestWinsInPlace ==
  \A i \in DOMAIN ingested :
    LET uid == GetUid(ingested[i].comp) IN
    (IsEvent(ingested[i].comp) /\ uid # None /\ i = Min(Arrivals(uid)))
    => /\ ingested[i].at + 1 \in DOMAIN components
       /\ components[ingested[i].at + 1] = ingested[Max(Arrivals(uid))].comp
       /\ \A k \in UidEvents(components) :
            GetUid(components[k]) = uid => k = ingested[i].at + 1

\* C4 witness: three events with one UID were read, the last differs from the
\* first.
C4_Witness ==
  \E uid \in DOMAIN id_map :
    /\ Cardinality(Arrivals(uid)) = 3
    /\ ingested[Max(Arrivals(uid))].comp # ingested[Min(Arrivals(uid))].comp
    /\ components[id_map[uid]] = ingested[Max(Arrivals(uid))].comp

----------------------------------------------------------------------------
\* The positions of seq that hold a time-zone definition block with a TZID.
TzBlocks(seq) ==
  {i \in DOMAIN seq : /\ seq[i].type = "Other"
                      /\ seq[i].kind = "VTIMEZONE"
                      /\ GetTzid(seq[i]) # None}

\* C5 (as stated): over all documents read into one builder, at most one
\* time-zone definition block is retained per distinct TZID.
C5_OneTimezonePerTzid ==
  \A i, j \in TzBlocks(components) :
    GetTzid(components[i]) = GetTzid(components[j]) => i = j

----------------------------------------------------------------------------
\* The positions of seq that hold an Event without UID.
UidlessEvents(seq) == {i \in DOMAIN seq : IsEvent(seq[i]) /\ GetUid(seq[i]) = None}

\* C6: an Event without UID is never in the builder; reading one only writes
\* a warning: the builder is unchanged and the loop of process goes on.
C6_UidlessDropped ==
  /\ [](UidlessEvents(components) = {})
  /\ [][(ReadsComponent /\ IsEvent(Arrived) /\ GetUid(Arrived) = None)
        => (/\ warnings' = warnings + 1
            /\ UNCHANGED builder
            /\ pc' = "process"
            /\ stage' = stage)]_vars

\* C6 witness: a calendar was assembled after an event without UID was read,
\* and it holds an event that was read after that one.
C6_Witness ==
  /\ Assembled
  /\ warnings = 1
  /\ \E i \in UidlessEvents([k \in DOMAIN ingested |-> ingested[k].comp]) :
       \E j \in DOMAIN ingested :
         /\ i < j
         /\ IsEvent(ingested[j].comp)
         /\ \E k \in DOMAIN Out.components : Out.components[k] = ingested[j].comp

----------------------------------------------------------------------------
\* The number of Events among the first i components of seq.
EventRank(seq, i) == Cardinality({j \in 1..i : IsEvent(seq[j])})

\* The components of seq at the positions in S, in the order of seq.
RECURSIVE Pick(_, _)
Pick(seq, S) ==
  IF seq = << >> THEN << >>
  ELSE LET rest == Pick(SubSeq(seq, 1, Len(seq) - 1), S)
       IN  IF Len(seq) \in S THEN Append(rest, seq[Len(seq)]) ELSE rest

\* C7: assembly with Limit(max) emits the first min(max, n) of the n retained
\* Events, as they are, and every component that is not an Event, in the
\* order of the builder's sequence.
C7_LimitKeepsFirst ==
  (Assembled /\ processor.kind = "Limit") =>
    LET max == processor.remaining
        n == Cardinality({i \in DOMAIN components : IsEvent(components[i])})
        kept == {i \in DOMAIN components :
                   ~IsEvent(components[i]) \/ EventRank(components, i) <= max}
    IN  /\ Out.components = Pick(components, kept)
        /\ Cardinality({i \in DOMAIN Out.components : IsEvent(Out.components[i])})
             = (IF max < n THEN max ELSE n)

\* C7 witness: Limit(1) over a sequence of an Event, a component that is not
\* an Event and a second Event, which is dropped.
C7_Witness ==
  /\ Assembled
  /\ processor = LimitEventProcessor(1)
  /\ Len(components) = 3
  /\ IsEvent(components[1]) /\ ~IsEvent(components[2]) /\ IsEvent(components[3])
  /\ Out.components = <<components[1], components[2]>>

----------------------------------------------------------------------------
\* The positions of the log of calls of kind op about component i.
CallsOf(op, i) == {k \in DOMAIN calls : calls[k].op = op /\ calls[k].idx = i}

Only(S) == CHOOSE x \in S : TRUE

\* C8: assembly calls filter once per retained Event and before transform; an
\* event filter rejects is not transformed and not emitted; a kept event is
\* transformed once and emitted once, as the event transform returned or, when
\* it returned none, as it is.
C8_FilterThenTransform ==
  Assembled =>
    /\ \A i \in DOMAIN components :
         IF IsEvent(components[i])
         THEN /\ Cardinality(CallsOf("filter", i)) = 1
              /\ IF calls[Only(CallsOf("filter", i))].keep
                 THEN /\ Cardinality(CallsOf("transform", i)) = 1
                      /\ Only(CallsOf("filter", i)) < Only(CallsOf("transform", i))
                      /\ Cardinality(CallsOf("push", i)) = 1
                      /\ LET t == calls[Only(CallsOf("transform", i))].result
                         IN  calls[Only(CallsOf("push", i))].comp =
                               (IF t = NoEvent THEN components[i] ELSE t[1])
                 ELSE /\ CallsOf("transform", i) = {}
                      /\ CallsOf("push", i) = {}
         ELSE /\ CallsOf("filter", i) = {}
              /\ CallsOf("transform", i) = {}
    /\ LET pushes == SelectSeq(calls, LAMBDA c : c.op = "push")
       IN  Out.components = [k \in DOMAIN pushes |-> pushes[k].comp]

\* C8 witness: filter rejected one event and kept another, for which
\* transform returned none.
C8_Witness ==
  /\ Assembled
  /\ \E k \in DOMAIN calls : calls[k].op = "filter" /\ ~calls[k].keep
  /\ \E k \in DOMAIN calls : calls[k].op = "transform" /\ calls[k].result = NoEvent

\* C8 second case: transform returned an event that differs from the original.
C8_WitnessReplaced ==
  /\ Assembled
  /\ \E k \in DOMAIN calls :
       /\ calls[k].op = "transform"
       /\ calls[k].result # NoEvent
       /\ calls[k].result[1] # components[calls[k].idx]

----------------------------------------------------------------------------
\* What assembly emits for the kept component c under processor p.
Emitted(p, c) ==
  IF IsEvent(c) /\ Transform(p, c) # NoEvent THEN Transform(p, c)[1] ELSE c

\* C9: the assembled sequence is an order-preserving image of the builder's
\* sequence: there are positions of the builder, in increasing order, whose
\* components (transformed, for Events) are the output, every component that
\* is not an Event is among them, and these come out unchanged and in order.
C9_OrderPreserved ==
  Assembled =>
    LET pushes == SelectSeq(calls, LAMBDA c : c.op = "push")
        NotEvent(c) == ~IsEvent(c)
    IN  /\ Len(pushes) = Len(Out.components)
        /\ \A j \in DOMAIN pushes :
             /\ pushes[j].idx \in DOMAIN components
             /\ Out.components[j] = Emitted(processor, components[pushes[j].idx])
        /\ \A j, k \in DOMAIN pushes : j < k => pushes[j].idx < pushes[k].idx
        /\ \A i \in DOMAIN components :
             ~IsEvent(components[i]) => \E j \in DOMAIN pushes : pushes[j].idx = i
        /\ SelectSeq(Out.components, NotEvent) = SelectSeq(components, NotEvent)

\* C9 witness: an event was dropped between two emitted components, an Event
\* and a component that is not an Event.
C9_Witness ==
  /\ Assembled
  /\ Len(components) = 3
  /\ IsEvent(components[1]) /\ IsEvent(components[2]) /\ ~IsEvent(components[3])
  /\ Out.components = <<components[1], components[3]>>

\* C9 second case: a transformed event kept its place between other components.
C9_WitnessTransformed ==
  /\ Assembled
  /\ Len(components) = 3
  /\ Len(Out.components) = 3
  /\ IsEvent(components[1]) /\ ~IsEvent(components[2]) /\ IsEvent(components[3])
  /\ Out.components[1] # components[1]
  /\ Out.components[2] = components[2]
  /\ Out.components[3] = Emitted(processor, components[3])

----------------------------------------------------------------------------
\* The first value of a metadata field among the calendars parsed so far.
RECURSIVE FirstGiven(_)
FirstGiven(xs) ==
  IF xs = << >> THEN None
  ELSE IF Head(xs) # None THEN Head(xs) ELSE FirstGiven(Tail(xs))

Parsed == SelectSeq(docs, LAMBDA d : ~d.empty /\ ~d.failed)

ResolvedName ==
  IF cli.name # None THEN cli.name
  ELSE FirstGiven([k \in DOMAIN Parsed |-> Parsed[k].meta.name])

ResolvedDescription ==
  IF cli.description # None THEN cli.description
  ELSE FirstGiven([k \in DOMAIN Parsed |-> Parsed[k].meta.description])

\* No option sets the time zone.
ResolvedTimezone == FirstGiven([k \in DOMAIN Parsed |-> Parsed[k].meta.timezone])

\* C10: each metadata field is the option given for it or else the first value
\* among the calendars read, in their order; a field that has a value keeps
\* it; the assembled calendar carries these values.
C10_MetadataFirstWins ==
  /\ [](/\ name = ResolvedName
        /\ description = ResolvedDescription
        /\ timezone = ResolvedTimezone
        /\ Assembled => /\ Out.name = ResolvedName
                        /\ Out.description = ResolvedDescription
                        /\ Out.timezone = ResolvedTimezone)
  /\ [][/\ name # None => name' = name
        /\ description # None => description' = description
        /\ timezone # None => timezone' = timezone]_vars

\* C10 witness: the name option was given and wins over the name of the
\* calendar read, whose description is taken.
C10_Witness ==
  /\ Assembled
  /\ Len(docs) = 1
  /\ cli.name = "n0" /\ docs[1].meta.name \notin {None, "n0"}
  /\ cli.description = None /\ docs[1].meta.description # None
  /\ Out.name = "n0"
  /\ Out.description = docs[1].meta.description

\* C10 second case: two calendars give different names, the first one's wins.
C10_WitnessFirstWins ==
  /\ Assembled
  /\ Len(docs) = 2
  /\ cli.name = None
  /\ docs[1].meta.name # None
  /\ docs[2].meta.name \notin {None, docs[1].meta.name}
  /\ Out.name = docs[1].meta.name

----------------------------------------------------------------------------
\* An event processor's transform called on one event, for every event and
\* processor of a larger universe than the runs of main() above draw from.

\* The properties an event can have under the name k: none (<< >>) or one.
TProperties(k) ==
  CASE k = "UID"     -> {<< >>, <<NewProperty("UID", "u1")>>}
    [] k = "SUMMARY" -> {<< >>, <<NewProperty("SUMMARY", "a")>>,
                         <<Property("SUMMARY", "a", "LANGUAGE" :> "en")>>}
    [] k = "DTSTART" -> {<< >>, <<NewProperty("DTSTART", "t")>>,
                         <<Property("DTSTART", "t", TzParam("z1"))>>,
                         <<Property("DTSTART", "t", TzParam("z2"))>>,
                         <<Property("DTSTART", "t", TzParam("z1") @@ ("VALUE" :> "DATE"))>>}
    [] k = "DTEND"   -> {<< >>, <<Property("DTEND", "t", TzParam("z1"))>>}

\* The event with the properties ps, appended one after the other.
RECURSIVE AppendAll(_, _)
AppendAll(ev, ps) ==
  IF ps = << >> THEN ev ELSE AppendAll(AppendProperty(ev, Head(ps)), Tail(ps))

TEvents ==
  { AppendAll(NewEvent, u \o s \o d \o e) :
      u \in TProperties("UID"), s \in TProperties("SUMMARY"),
      d \in TProperties("DTSTART"), e \in TProperties("DTEND") }

TProcessors ==
  { RemovePropEventProcessor(names, keep) :
      names \in SUBSET {"UID", "SUMMARY", "DTSTART", "DTEND", "LOCATION"},
      keep \in BOOLEAN }
  \cup { ReplacePropEventProcessor(k, v) :
           k \in {"SUMMARY", "DTSTART", "LOCATION"}, v \in {"a", "v"} }
  \cup { TzSubstEventProcessor(f, t) : f \in {"z1", "z2", "z3"}, t \in {"z1", "z2"} }
  \cup { DefaultEventProcessor, LimitEventProcessor(1) }

TInit ==
  /\ cli = [name |-> None, description |-> None]
  /\ strategy = "default"
  /\ printed = << >>
  /\ t_event \in TEvents
  /\ t_processor \in TProcessors
  /\ t_result = << >>
  /\ stage = "input"
  /\ pc = "main"
  /\ components = << >>
  /\ id_map = EmptyMap
  /\ name = None
  /\ description = None
  /\ timezone = None
  /\ tzid_set = {}
  /\ warnings = 0
  /\ output = NoOutput
  /\ processor = DefaultEventProcessor
  /\ calls = << >>
  /\ docs = << >>
  /\ ingested = << >>

\* event_processor.transform(&event)
ApplyTransform ==
  /\ t_result = << >>
  /\ t_result' = <<Transform(t_processor, t_event)>>
  /\ UNCHANGED <<cli, strategy, printed, t_event, t_processor, stage, pc, builder,
                 tzid_set, warnings, output, processor, calls, docs, ingested>>

TNext == ApplyTransform

SpecTransform == TInit /\ [][TNext]_vars

\* transform was called and returned Some(event).
Transformed == t_result # << >> /\ t_result[1] # NoEvent

TResult == t_result[1][1]

----------------------------------------------------------------------------
\* The arrival numbered i in ingested was appended to the sequence: it made
\* the sequence one longer.
Appended(i) ==
  (IF i < Len(ingested) THEN ingested[i + 1].at ELSE Len(components))
    = ingested[i].at + 1

IsTimezoneBlock(c) == c.type = "Other" /\ c.kind = "VTIMEZONE"

\* The arrival numbered i is the first Event that came with its UID.
FirstAppearance(i) ==
  /\ IsEvent(ingested[i].comp)
  /\ GetUid(ingested[i].comp) # None
  /\ \A j \in 1..(i - 1) :
        IsEvent(ingested[j].comp) => GetUid(ingested[j].comp) # GetUid(ingested[i].comp)

NonEvents(seq) == SelectSeq(seq, LAMBDA c : ~IsEvent(c))

\* C11: a component that is neither an Event nor a time-zone block is always
\* appended on ingest; an Event is appended exactly when it is the first with
\* its UID; every appended arrival stands in the sequence at the position it
\* was appended to (an Event slot holding an Event of that UID), so the
\* sequence is the appended arrivals in arrival order; and the output has the
\* sequence's non-Events in the same order.
C11_RetainedInArrivalOrder ==
  /\ \A i \in DOMAIN ingested :
       LET c == ingested[i].comp
           k == ingested[i].at + 1
       IN  /\ (~IsEvent(c) /\ ~IsTimezoneBlock(c)) => Appended(i)
           /\ IsEvent(c) => (Appended(i) <=> FirstAppearance(i))
           /\ Appended(i) =>
                /\ k \in DOMAIN components
                /\ IF IsEvent(c)
                   THEN IsEvent(components[k]) /\ GetUid(components[k]) = GetUid(c)
                   ELSE components[k] = c
  /\ \A i, j \in DOMAIN ingested :
       (i < j /\ Appended(i) /\ Appended(j)) => ingested[i].at < ingested[j].at
  /\ Len(components) = Cardinality({i \in DOMAIN ingested : Appended(i)})
  /\ Assembled => NonEvents(Out.components) = NonEvents(components)

\* An Event, then a VJOURNAL block carrying a TZID, then a second Event with
\* the UID of the first were read after a time-zone block with that TZID
\* could have been seen; the output holds the newer Event in the first slot
\* and the VJOURNAL block behind it.
C11_Witness ==
  /\ Assembled
  /\ processor = DefaultEventProcessor
  /\ Len(ingested) = 3
  /\ IsEvent(ingested[1].comp)
  /\ ingested[2].comp = MkOther("VJOURNAL", "z1", "a")
  /\ IsEvent(ingested[3].comp)
  /\ ingested[3].comp # ingested[1].comp
  /\ Out.components = <<ingested[3].comp, ingested[2].comp>>

\* A VJOURNAL block carrying TZID z1 was read after a time-zone block with
\* the same TZID, in the same document, and both are in the sequence.
C11_WitnessSameTzid ==
  /\ Len(ingested) = 2
  /\ ingested[1].comp = MkOther("VTIMEZONE", "z1", "a")
  /\ ingested[2].comp = MkOther("VJOURNAL", "z1", "a")
  /\ ingested[1].doc = ingested[2].doc
  /\ components = <<ingested[1].comp, ingested[2].comp>>

----------------------------------------------------------------------------
C12_WitnessAbsent ==
  /\ Transformed
  /\ t_processor = ReplacePropEventProcessor("LOCATION", "v")
  /\ DOMAIN t_event.props = {"UID", "SUMMARY"}
  /\ DOMAIN TResult.props = {"UID", "SUMMARY", "LOCATION"}

\* C13: Remove-Properties of no name, and Keep-Only-Properties of names that
\* include every name of the event, return an event equal to the event; for
\* any names, Keep-Only-Properties returns the properties of the event whose
\* name is in names and Remove-Properties those whose name is not, each as
\* it was in the event.
C13_KeepRemoveComplement ==
  (t_result # << >> /\ t_processor.kind = "RemoveProp") =>
    /\ Transformed
    /\ LET names == t_processor.properties_set
           keep == t_processor.keep
           e == TResult
       IN  /\ (~keep /\ names = {}) => e = t_event
           /\ (keep /\ DOMAIN t_event.props \subseteq names) => e = t_event
           /\ keep => DOMAIN e.props = (DOMAIN t_event.props) \cap names
           /\ ~keep => DOMAIN e.props = (DOMAIN t_event.props) \ names
           /\ \A k \in DOMAIN e.props : e.props[k] = t_event.props[k]

\* Keep-Only-Properties was applied to an event of three properties, one with
\* parameters, with a name set that has all three names and one more.
C13_Witness ==
  /\ Transformed
  /\ t_processor.kind = "RemoveProp"
  /\ t_processor.keep
  /\ DOMAIN t_event.props = {"UID", "SUMMARY", "DTSTART"}
  /\ t_event.props["DTSTART"].params # EmptyMap
  /\ t_processor.properties_set = {"UID", "SUMMARY", "DTSTART", "LOCATION"}
  /\ TResult = t_event

\* Remove-Properties with the empty name set was applied to an event of
\* three properties.
C13_WitnessRemoveNone ==
  /\ Transformed
  /\ t_processor = RemovePropEventProcessor({}, FALSE)
  /\ DOMAIN t_event.props = {"UID", "SUMMARY", "DTSTART"}
  /\ TResult = t_event

\* Remove-Properties split an event: one property left, two removed.
C13_WitnessSplit ==
  /\ Transformed
  /\ t_processor = RemovePropEventProcessor({"UID", "DTSTART"}, FALSE)
  /\ DOMAIN t_event.props = {"UID", "SUMMARY", "DTSTART"}
  /\ DOMAIN TResult.props = {"SUMMARY"}

\* C14: the transform of Timezone-Substitute(from_tz, to_tz) returns an event
\* with the same property names; every property has the key, the value and
\* the parameter names it had, and every parameter the value it had, except
\* a TZID parameter whose value was from_tz, which is to_tz.
C14_TzSubstFrame ==
  (t_result # << >> /\ t_processor.kind = "TzSubst") =>
    /\ Transformed
    /\ LET e == TResult IN
       /\ IsEvent(e)
       /\ DOMAIN e.props = DOMAIN t_event.props
       /\ Keys(e.props) = Keys(t_event.props)
       /\ \A k \in DOMAIN t_event.props :
            LET v == t_event.props[k]
                w == e.props[k]
            IN  /\ w.key = v.key
                /\ w.val = v.val
                /\ DOMAIN w.params = DOMAIN v.params
                /\ \A q \in DOMAIN v.params :
                     w.params[q] = IF q = "TZID" /\ v.params[q] = t_processor.from_tz
                                   THEN t_processor.to_tz
                                   ELSE v.params[q]

\* z1 was replaced by z2 in an event whose DTSTART has TZID z1 and a VALUE
\* parameter, and that has a SUMMARY with a LANGUAGE parameter.
C14_Witness ==
  /\ Transformed
  /\ t_processor = TzSubstEventProcessor("z1", "z2")
  /\ {"SUMMARY", "DTSTART"} \subseteq DOMAIN t_event.props
  /\ t_event.props["DTSTART"].params = (TzParam("z1") @@ ("VALUE" :> "DATE"))
  /\ t_event.props["SUMMARY"].params # EmptyMap
  /\ TResult.props["DTSTART"].params = (TzParam("z2") @@ ("VALUE" :> "DATE"))
  /\ TResult.props["SUMMARY"] = t_event.props["SUMMARY"]

\* z1 was replaced in an event whose DTSTART has TZID z2 and whose DTEND has
\* TZID z1: DTSTART is as it was.
C14_WitnessOtherTzid ==
  /\ Transformed
  /\ t_processor = TzSubstEventProcessor("z1", "z2")
  /\ {"DTEND", "DTSTART"} \subseteq DOMAIN t_event.props
  /\ t_event.props["DTSTART"].params = TzParam("z2")
  /\ TResult.props["DTSTART"] = t_event.props["DTSTART"]
  /\ TResult.props["DTEND"].params = TzParam("z2")

----------------------------------------------------------------------------
Failed == {i \in DOMAIN docs : docs[i].failed}

\* C15: once a source could not be read or parsed the run is over: it is the
\* last source main() touched, no calendar was or will be assembled and
\* printed, and the Prop command has printed nothing, whatever the builder
\* holds of the sources read before.
C15_FailureNoOutput ==
  Failed # {} =>
    /\ Failed = {Len(docs)}
    /\ stage = "aborted"
    /\ pc = "main"
    /\ ~Assembled
    /\ printed = << >>

\* The first source was read and left a component in the builder, the second
\* source failed.
C15_Witness ==
  /\ Len(docs) = 2
  /\ ~docs[1].failed
  /\ docs[2].failed
  /\ Len(components) >= 1
  /\ ~Assembled

----------------------------------------------------------------------------
\* The place of a source in the order of main().
SourceRank(src) ==
  CASE src = "input" -> 1
    [] src = "stdin" -> 2
    [] src = "cat"   -> 3

\* The document numbered i had content that was parsed and ingested.
WasIngested(i) == ~docs[i].empty /\ ~docs[i].failed

\* C16 as stated: whatever was ingested from standard input was ingested
\* before what was ingested from any --input file or Cat file.
C16_StdinBeforeNamed ==
  \A i, j \in DOMAIN docs :
    (WasIngested(i) /\ WasIngested(j) /\ docs[i].src = "stdin" /\ docs[j].src # "stdin")
      => i < j

\* C16, amended: sources are read in the order --input file, standard input,
\* Cat files, at most one --input file and one standard input; components
\* are ingested document by document in that order.
C16_InputThenStdinThenFiles ==
  /\ \A i, j \in DOMAIN docs :
       i < j => /\ SourceRank(docs[i].src) <= SourceRank(docs[j].src)
                /\ docs[i].src = docs[j].src => docs[i].src = "cat"
  /\ \A a, b \in DOMAIN ingested : a < b => ingested[a].doc <= ingested[b].doc
  /\ \A a \in DOMAIN ingested : ingested[a].doc \in DOMAIN docs

\* An --input file, standard input and a Cat file were read in this order,
\* each with content, and a component of standard input was ingested.
C16_Witness ==
  /\ Len(docs) = 3
  /\ \A i \in 1..3 : WasIngested(i)
  /\ docs[1].src = "input"
  /\ docs[2].src = "stdin"
  /\ docs[3].src = "cat"
  /\ \E a \in DOMAIN ingested : ingested[a].doc = 2

----------------------------------------------------------------------------
\* The Prop command ran: main() is done and assembled no calendar.
PropRan == stage = "done" /\ ~Assembled

\* The positions of the Events of the sequence that have a property called n.
EventsWith(n) == {k \in DOMAIN components : IsEvent(components[k]) /\ n \in DOMAIN components[k].props}

\* C17: the Prop command prints the names of the properties of the Events of
\* the builder's sequence and nothing else, each name once, a name whose
\* first Event comes earlier in the sequence before a name whose first Event
\* comes later; it calls neither filter nor transform and assembles nothing.
\* No other command prints names.
C17_PropListsNames ==
  /\ ~PropRan => printed = << >>
  /\ PropRan =>
       /\ \A i, j \in DOMAIN printed : printed[i] = printed[j] => i = j
       /\ {printed[i] : i \in DOMAIN printed}
            = UNION {DOMAIN components[k].props : k \in UidEvents(components) \cup UidlessEvents(components)}
       /\ \A i, j \in DOMAIN printed :
            i < j => Min(EventsWith(printed[i])) <= Min(EventsWith(printed[j]))
       /\ calls = << >>
       /\ processor = DefaultEventProcessor

\* Prop ran on a sequence of two Events and a non-Event: the names of the
\* first Event were printed, then the one name only the second Event has.
C17_Witness ==
  /\ PropRan
  /\ Len(components) = 3
  /\ IsEvent(components[1])
  /\ ~IsEvent(components[2])
  /\ IsEvent(components[3])
  /\ DOMAIN components[1].props = {"SUMMARY", "UID"}
  /\ DOMAIN components[3].props = {"DTSTART", "SUMMARY", "UID"}
  /\ printed = <<"SUMMARY", "UID", "DTSTART">>

----------------------------------------------------------------------------
\* C19: reading an Event whose UID is in id_map, when must_replace answers
\* false for it and the Event in its slot, leaves components and id_map as
\* they were.
C19_RejectedEventDiscarded ==
  [][(/\ ReadsComponent
      /\ IsEvent(Arrived)
      /\ GetUid(Arrived) # None
      /\ IdMapHas(id_map, GetUid(Arrived))
      /\ IsEvent(components[id_map[GetUid(Arrived)]])
      /\ ~must_replace(Arrived, components[id_map[GetUid(Arrived)]]))
       => (components' = components /\ id_map' = id_map)]_vars

\* Under a policy that answers false, two Events with one UID and different
\* properties were read and the sequence holds the first of them.
C19_Witness ==
  /\ strategy = "never"
  /\ Len(ingested) = 2
  /\ IsEvent(ingested[1].comp)
  /\ IsEvent(ingested[2].comp)
  /\ GetUid(ingested[1].comp) = GetUid(ingested[2].comp)
  /\ ingested[1].comp # ingested[2].comp
  /\ components = <<ingested[1].comp>>
  /\ id_map = (GetUid(ingested[1].comp) :> 1)

----------------------------------------------------------------------------
\* id_map and the Events of components correspond one to one.
IndexMatchesEvents ==
  /\ \A k \in DOMAIN components :
       IsEvent(components[k]) =>
         /\ GetUid(components[k]) # None
         /\ IdMapHas(id_map, GetUid(components[k]))
         /\ id_map[GetUid(components[k])] = k
  /\ \A u \in DOMAIN id_map :
       /\ id_map[u] \in DOMAIN components
       /\ IsEvent(components[id_map[u]])
       /\ GetUid(components[id_map[u]]) = u
  /\ \A u, v \in DOMAIN id_map : id_map[u] = id_map[v] => u = v

\* A step removes no component and changes no recorded index: the sequence
\* does not get shorter, a non-Event stays in its slot, an Event slot keeps
\* an Event of the same UID, and every key of id_map keeps its index.
IndexStable ==
  /\ Len(components') >= Len(components)
  /\ \A k \in DOMAIN components :
       IF IsEvent(components[k])
       THEN IsEvent(components'[k]) /\ GetUid(components'[k]) = GetUid(components[k])
       ELSE components'[k] = components[k]
  /\ \A u \in DOMAIN id_map : IdMapHas(id_map', u) /\ id_map'[u] = id_map[u]

\* C20: in every state id_map and the Events of the sequence correspond one
\* to one (every Event has a UID that id_map maps to the Event's position,
\* every value of id_map is a position of the sequence, no two UIDs share
\* one), and every step keeps the components and the recorded indexes.
C20_IndexCorrespondence == []IndexMatchesEvents /\ [][IndexStable]_vars

\* Two Events with different UIDs stand around a non-Event: id_map has both
\* UIDs, at the positions 1 and 3.
C20_Witness ==
  /\ Len(components) = 3
  /\ IsEvent(components[1])
  /\ ~IsEvent(components[2])
  /\ IsEvent(components[3])
  /\ DOMAIN id_map = {GetUid(components[1]), GetUid(components[3])}
  /\ id_map[GetUid(components[3])] = 3
  /\ id_map[GetUid(components[1])] = 1
====
